---------------------------- MODULE Spec2Model ----------------------------
(***************************************************************************)
(* Model of the Bluetti BLE device communication layer:                    *)
(*   DeviceReader.read_data, DeviceReader._async_send_command,             *)
(*   DeviceReader._notification_handler  (bluetooth/device_reader.py)      *)
(*   BluettiButton.write_to_device        (button.py)                      *)
(*                                                                         *)
(* asyncio is cooperative: a coroutine runs atomically from one await to   *)
(* the next.  Every action below is one such stretch: it completes the     *)
(* await the task is suspended in and runs the code up to the next await.  *)
(* pc[t] names the await in which task t is suspended.                     *)
(*                                                                         *)
(* Wire frames are scaled down: bytes range over 0..ByteMax, a register    *)
(* is one byte and the checksum is one byte (sum modulo ByteMax+1).        *)
(***************************************************************************)
EXTENDS Integers, Sequences, FiniteSets, TLC

(***************************************************************************)
(* Bounds of the model.                                                    *)
(***************************************************************************)
\* largest byte value of the scaled wire alphabet
ByteMax == 3
\* longest notification chunk the handler specification feeds
MaxChunk == 3
\* most bytes fed to one exchange in the handler specification
MaxHeard == 6
\* DeviceReader.max_retries (constructor argument, default 5)
max_retries == 2
\* BluettiDevice.pack_num_max of the modelled device
pack_num_max == 2
\* most bytes the accumulation buffer holds: a chunk that would grow it
\* beyond is lost in transit (an abandoned exchange accumulates without end)
MaxResponse == 7
\* the largest byte of the chunks the handler specification feeds
FeedByteMax == 2

Byte == 0..ByteMax

(***************************************************************************)
(* Tasks: two callers of read_data and one caller of write_to_device.      *)
(***************************************************************************)
Readers == {"r1", "r2"}
Writers == {"w1"}
Tasks == Readers \cup Writers
NoTask == "none"

(***************************************************************************)
(* Command codec (utils/commands.py, not among the sources; modelled from  *)
(* the specification, sections 4.1 and 6).                                 *)
(***************************************************************************)
FUNC_READ == 0
FUNC_WRITE == 1
\* the "high bit" that marks an exception response
EXC_BIT == 2
DEV_ADDR == 1

\* register addresses of the modelled device
REG_AC == 0
REG_DC == 1
REG_PACK_NUM == 2
REG_PACK_VOLTAGE == 3
REG_CELL == 5

ReadHoldingRegisters(addr, quantity) ==
    [func |-> FUNC_READ, starting_address |-> addr, arg |-> quantity]

WriteSingleRegister(addr, value) ==
    [func |-> FUNC_WRITE, starting_address |-> addr, arg |-> value]

NoCommand == [func |-> -1, starting_address |-> 0, arg |-> 0]

RECURSIVE SumSeq(_)
SumSeq(s) == IF s = <<>> THEN 0 ELSE Head(s) + SumSeq(Tail(s))

\* checksum over the bytes before the trailing checksum byte
modbus_crc(s) == SumSeq(s) % (ByteMax + 1)

\* expectedResponseLength: header (3) + payload + checksum for a read,
\* the echoed request (address, function, register, value, checksum) for a write
response_size(cmd) ==
    IF cmd.func = FUNC_READ THEN 3 + cmd.arg + 1 ELSE 5

is_valid_response(cmd, r) ==
    /\ Len(r) >= 3
    /\ r[Len(r)] = modbus_crc(SubSeq(r, 1, Len(r) - 1))

\* function code with the high bit set, followed by the exception code
is_exception_response(cmd, r) ==
    /\ Len(r) >= 3
    /\ r[2] = cmd.func + EXC_BIT

\* payload of a response: without the 3 header bytes and the checksum
parse_response(cmd, r) ==
    IF Len(r) < 5 THEN <<>> ELSE SubSeq(r, 4, Len(r) - 1)

(***************************************************************************)
(* Field dictionary (base_devices/BluettiDevice.py, not among the sources; *)
(* modelled from the specification, section 6: register address and raw    *)
(* payload to a mapping of field keys to values).                          *)
(***************************************************************************)
FieldRegs == {REG_AC, REG_DC, REG_PACK_NUM, REG_PACK_VOLTAGE, REG_CELL}

FieldName(reg) ==
    CASE reg = REG_AC -> "ac_output_on"
      [] reg = REG_DC -> "dc_output_on"
      [] reg = REG_PACK_NUM -> "pack_num"
      [] reg = REG_PACK_VOLTAGE -> "pack_voltage"
      [] reg = REG_CELL -> "cell_voltage"

EmptyMap == [k \in {} |-> 0]

\* BluettiDevice.parse(starting_address, body)
parse(address, body) ==
    LET regs == {g \in FieldRegs : g >= address /\ g < address + Len(body)}
        reg_of(k) == CHOOSE g \in regs : FieldName(g) = k
    IN  [k \in {FieldName(g) : g \in regs} |-> body[reg_of(k) - address + 1]]

polling_commands == <<ReadHoldingRegisters(REG_AC, 1), ReadHoldingRegisters(REG_DC, 1)>>

pack_polling_commands ==
    <<ReadHoldingRegisters(REG_PACK_NUM, 2), ReadHoldingRegisters(REG_CELL, 1)>>

build_setter_command(field, value) ==
    WriteSingleRegister(IF field = "pack_num" THEN REG_PACK_NUM ELSE REG_AC, value)

(***************************************************************************)
(* The single-resolution result slot (asyncio.Future).                     *)
(***************************************************************************)
NoFuture == [st |-> "none", res |-> <<>>, err |-> ""]
Pending == [st |-> "pending", res |-> <<>>, err |-> ""]
Cancelled == [st |-> "cancelled", res |-> <<>>, err |-> ""]
Result(bytes) == [st |-> "result", res |-> bytes, err |-> ""]
Exception(kind) == [st |-> "exception", res |-> <<>>, err |-> kind]

\* asyncio.Future.done()
done(fut) == fut.st \in {"result", "exception", "cancelled"}

\* the AT echoes the handler recognises (b"AT+NAME?\r", b"AT+ADV?\r"), scaled
AT_NAME == <<3, 2, 3>>
AT_ADV == <<3, 3>>


(***************************************************************************)
(* The device behind the transport.  On a command it answers with a plan:  *)
(* a sequence of notification chunks.  It handles one command at a time:   *)
(* it does not answer a command while chunks of an earlier answer are      *)
(* still in flight.                                                        *)
(***************************************************************************)
Frame(cmd, payload) ==
    LET h == IF cmd.func = FUNC_READ
             THEN <<DEV_ADDR, FUNC_READ, cmd.arg>> \o payload
             ELSE <<DEV_ADDR, FUNC_WRITE, cmd.starting_address % (ByteMax + 1), cmd.arg>>
    IN  Append(h, modbus_crc(h))

Corrupt(f) == [f EXCEPT ![Len(f)] = (f[Len(f)] + 1) % (ByteMax + 1)]

ExcFrame(cmd) ==
    LET h == <<DEV_ADDR, cmd.func + EXC_BIT, 1>> IN Append(h, modbus_crc(h))

\* payloads the device may put in a response to a read
Payloads(cmd) ==
    IF cmd.func = FUNC_READ /\ cmd.starting_address = REG_PACK_NUM
    THEN {<<pn, 1>> : pn \in 1..pack_num_max}
    ELSE {<<1>>}

\* the whole response, a response with a bad checksum, an exception response,
\* an AT echo, or no answer at all
Plans(cmd) ==
    LET f0 == Frame(cmd, CHOOSE p \in Payloads(cmd) : TRUE)
    IN  {<<Frame(cmd, p)>> : p \in Payloads(cmd)}
        \cup {<<Corrupt(f0)>>, <<ExcFrame(cmd)>>, <<AT_NAME>>, <<>>}

RECURSIVE Tagged(_, _)
Tagged(plan, cmd) ==
    IF plan = <<>> THEN <<>>
    ELSE <<[data |-> Head(plan), re |-> cmd]>> \o Tagged(Tail(plan), cmd)

(***************************************************************************)
(* State.                                                                  *)
(***************************************************************************)
VARIABLES
    pc,               \* the await each task is suspended in
    polling_lock,     \* the task holding DeviceReader.polling_lock, or NoTask
    lock_waiters,     \* tasks waiting for the lock, first come first served
    persistent_conn,  \* DeviceReader.persistent_conn
    is_connected,     \* BleakClient.is_connected
    subscribed,       \* the transport delivers notifications to the handler
    has_notifier,     \* DeviceReader.has_notifier
    notify_future,    \* DeviceReader.notify_future
    current_command,  \* DeviceReader.current_command
    notify_response,  \* DeviceReader.notify_response
    inflight,         \* chunks the device has sent and the host has not yet seen
    filter_registers, \* read_data argument: filter_registers
    polling_cmds,     \* read_data local: polling_commands
    pack_cmds,        \* read_data local: pack_commands
    parsed_data,      \* read_data local: parsed_data
    attempt,          \* read_data local: attempt
    pos,              \* read_data: the position in the command loops
    outcome,          \* how the call ends: the pending or final return value
    timed_out,        \* history: the overall timeout fired in this call
    connects,         \* history: connect() calls of this call
    disconnects,      \* history: disconnect() calls of this call
    connect_failed,   \* history: connect() raised in this call
    stops,            \* history: stop_notify() calls of this call
    heard,            \* history: bytes fed to the handler since the exchange began
    at_seen,          \* history: a chunk fed since then was an AT echo
                      \* (both recorded by the handler specification only)
    coordinator_data, \* PollingCoordinator.data
    attr_available,   \* each entity's _attr_available
    attr_is_on,       \* each entity's _attr_is_on
    handled           \* history: the entity has handled the latest update

exch == <<notify_future, current_command, notify_response, heard, at_seen>>
link == <<is_connected, subscribed, inflight>>
locals == <<filter_registers, polling_cmds, pack_cmds, attempt>>
hist == <<timed_out, connects, disconnects, stops, connect_failed>>
entity == <<coordinator_data, attr_available, attr_is_on, handled>>
vars == <<pc, polling_lock, lock_waiters, persistent_conn, has_notifier, exch,
          link, locals, parsed_data, pos, outcome, hist, entity>>

Pos(phase, idx, pack) == [phase |-> phase, idx |-> idx, pack |-> pack]
NoPos == Pos("none", 0, 0)

\* line 100-102: the pack loops run when there are pack commands
PackStart(pks) ==
    IF Len(pks) > 0 /\ pack_num_max >= 1 THEN Pos("select", 0, 1) ELSE Pos("end", 0, 0)

\* the first command of a poll (line 85)
FirstPos(pcs, pks) ==
    IF Len(pcs) > 0 THEN Pos("main", 1, 0) ELSE PackStart(pks)

\* the loops of lines 85, 102 and 113
NextPos(p, pcs, pks) ==
    CASE p.phase = "main" ->
            IF p.idx < Len(pcs) THEN Pos("main", p.idx + 1, 0) ELSE PackStart(pks)
      [] p.phase = "select" -> Pos("pack", 1, p.pack)
      [] p.phase = "pack" ->
            IF p.idx < Len(pks) THEN Pos("pack", p.idx + 1, p.pack)
            ELSE IF p.pack < pack_num_max THEN Pos("select", 0, p.pack + 1)
            ELSE Pos("end", 0, 0)

CommandAt(p, pcs, pks) ==
    CASE p.phase = "main" -> pcs[p.idx]
      [] p.phase = "select" -> build_setter_command("pack_num", p.pack)
      [] p.phase = "pack" -> pks[p.idx]


(***************************************************************************)
(* DeviceReader._notification_handler (lines 194-219) as a function of the *)
(* result slot, the buffer, the current command and the chunk.             *)
(***************************************************************************)
\* a handler without the guard of lines 198-200
HandlerUnguarded(fut, resp, cmd, data) ==
    IF data = AT_NAME \/ data = AT_ADV
    THEN [fut |-> Exception("BadConnectionError"), resp |-> resp]
    ELSE LET nr == resp \o data IN
         IF Len(nr) = response_size(cmd)
         THEN IF is_valid_response(cmd, nr)
              THEN [fut |-> Result(nr), resp |-> nr]
              ELSE [fut |-> Exception("ParseError"), resp |-> nr]
         ELSE IF is_exception_response(cmd, nr)
              THEN [fut |-> Exception("ModbusError"), resp |-> nr]
              ELSE [fut |-> fut, resp |-> nr]

\* a handler that resolves as soon as the checksum fits, whatever the length
HandlerEager(fut, resp, cmd, data) ==
    IF fut.st = "none" \/ done(fut)
    THEN [fut |-> fut, resp |-> resp]
    ELSE IF data = AT_NAME \/ data = AT_ADV
    THEN [fut |-> Exception("BadConnectionError"), resp |-> resp]
    ELSE LET nr == resp \o data IN
         IF is_valid_response(cmd, nr)
         THEN [fut |-> Result(nr), resp |-> nr]
         ELSE IF Len(nr) = response_size(cmd)
         THEN [fut |-> Exception("ParseError"), resp |-> nr]
         ELSE IF is_exception_response(cmd, nr)
              THEN [fut |-> Exception("ModbusError"), resp |-> nr]
              ELSE [fut |-> fut, resp |-> nr]

Handler(fut, resp, cmd, data) ==
    IF fut.st = "none" \/ done(fut)
    THEN [fut |-> fut, resp |-> resp]
    ELSE IF data = AT_NAME \/ data = AT_ADV
    THEN [fut |-> Exception("BadConnectionError"), resp |-> resp]
    ELSE LET nr == resp \o data IN
         IF Len(nr) = response_size(cmd)
         THEN IF is_valid_response(cmd, nr)
              THEN [fut |-> Result(nr), resp |-> nr]
              ELSE [fut |-> Exception("ParseError"), resp |-> nr]
         ELSE IF is_exception_response(cmd, nr)
              THEN [fut |-> Exception("ModbusError"), resp |-> nr]
              ELSE [fut |-> fut, resp |-> nr]

\* a handler that clears current_command once it has resolved the exchange
RunHandlerClearing(data) ==
    LET h == Handler(notify_future, notify_response, current_command, data) IN
    /\ notify_future' = h.fut
    /\ notify_response' = h.resp
    /\ current_command' = IF done(h.fut) THEN NoCommand ELSE current_command

\* the handler runs on one chunk
RunHandler(data) ==
    LET h == Handler(notify_future, notify_response, current_command, data) IN
    /\ notify_future' = h.fut
    /\ notify_response' = h.resp
    /\ UNCHANGED current_command

(***************************************************************************)
(* Continuations: the code a task runs after an await completes, up to its *)
(* next await.  Each fixes pc, pos, outcome, polling_lock and the exchange *)
(* variables; the running task t holds the lock until it returns.          *)
(***************************************************************************)
\* a return that leaves the polling lock held
ReturnHoldingLock(t, out, fut) ==
    /\ pc' = [pc EXCEPT ![t] = "returned"]
    /\ outcome' = [outcome EXCEPT ![t] = out]
    /\ polling_lock' = t
    /\ notify_future' = fut
    /\ UNCHANGED <<pos, current_command, notify_response, heard, at_seen>>

\* the call returns (or raises): the lock is released on the way out
Return(t, out, fut) ==
    /\ pc' = [pc EXCEPT ![t] = "returned"]
    /\ outcome' = [outcome EXCEPT ![t] = out]
    /\ polling_lock' = NoTask
    /\ notify_future' = fut
    /\ UNCHANGED <<pos, current_command, notify_response, heard, at_seen>>

\* a finally block that tears the session down in persistent mode too
LeaveAlways(t, out, fut, hn) ==
    /\ pc' = [pc EXCEPT ![t] = IF hn THEN "stop_notify" ELSE "disconnect"]
    /\ outcome' = [outcome EXCEPT ![t] = out]
    /\ notify_future' = fut
    /\ polling_lock' = t
    /\ UNCHANGED <<pos, current_command, notify_response, heard, at_seen>>

\* read_data lines 148-156: the finally block, entered with outcome out pending
Leave(t, out, fut, hn) ==
    IF persistent_conn
    THEN Return(t, out, fut)
    ELSE /\ pc' = [pc EXCEPT ![t] = IF hn THEN "stop_notify" ELSE "disconnect"]
         /\ outcome' = [outcome EXCEPT ![t] = out]
         /\ notify_future' = fut
         /\ polling_lock' = t
         /\ UNCHANGED <<pos, current_command, notify_response, heard, at_seen>>

\* _async_send_command lines 162-168: install the exchange and start the write
Install(t, p) ==
    /\ pc' = [pc EXCEPT ![t] = "write"]
    /\ pos' = [pos EXCEPT ![t] = p]
    /\ current_command' = CommandAt(p, polling_cmds[t], pack_cmds[t])
    /\ notify_future' = Pending
    /\ notify_response' = <<>>
    /\ heard' = <<>>
    /\ at_seen' = FALSE
    /\ polling_lock' = t
    /\ UNCHANGED outcome

\* go on to position p of the loops: the next command, or the end of the body
GoTo(t, p, fut, hn) ==
    IF p.phase = "end" THEN Leave(t, "map", fut, hn) ELSE Install(t, p)

\* lines 78-85 once connected
AfterConnect(t) ==
    IF ~has_notifier
    THEN /\ pc' = [pc EXCEPT ![t] = "start_notify"]
         /\ polling_lock' = t
         /\ UNCHANGED <<pos, outcome, exch>>
    ELSE GoTo(t, FirstPos(polling_cmds[t], pack_cmds[t]), notify_future, has_notifier)

\* a merge that does not compare the decoded pack_num with the requested pack
PackMergeUnchecked(parsed, pack, map) ==
    [k \in {key \o ToString(pack) : key \in DOMAIN parsed} |->
        parsed[CHOOSE key \in DOMAIN parsed : key \o ToString(pack) = k]] @@ map

\* lines 124-137: what a pack command's decoded fields add to the map
PackMerge(parsed, pack, map) ==
    IF "pack_num" \notin DOMAIN parsed \/ parsed["pack_num"] # pack
    THEN map
    ELSE [k \in {key \o ToString(pack) : key \in DOMAIN parsed} |->
            parsed[CHOOSE key \in DOMAIN parsed : key \o ToString(pack) = k]] @@ map

\* lines 87-95 and 116-137: decode the bytes _async_send_command returned
Merged(p, cmd, res, map) ==
    LET parsed == parse(cmd.starting_address, parse_response(cmd, res)) IN
    CASE p.phase = "main" -> parsed @@ map
      [] p.phase = "select" -> map
      [] p.phase = "pack" -> PackMerge(parsed, p.pack, map)

\* _async_send_command returned res (empty after a caught error): decode, merge,
\* and go on; after the pack-select exchange sleep 5 (line 111)
Process(t, res, fut) ==
    /\ parsed_data' = [parsed_data EXCEPT
                         ![t] = Merged(pos[t], current_command, res, @)]
    /\ IF pos[t].phase = "select"
       THEN /\ pc' = [pc EXCEPT ![t] = "settle"]
            /\ notify_future' = fut
            /\ polling_lock' = t
            /\ UNCHANGED <<pos, outcome, current_command, notify_response,
                           heard, at_seen>>
       ELSE GoTo(t, NextPos(pos[t], polling_cmds[t], pack_cmds[t]), fut, has_notifier)


(***************************************************************************)
(* DeviceReader.read_data                                                  *)
(***************************************************************************)
NoFilter == [given |-> FALSE, regs |-> <<>>]
Filter(regs) == [given |-> TRUE, regs |-> regs]
\* the filter_registers arguments the callers pass: r1 is the coordinator's
\* periodic poll, r2 a caller that reads no register, or two in an order of its choice
FilterInputs(t) ==
    IF t = "r1" THEN {NoFilter}
    ELSE {Filter(<<>>),
          Filter(<<ReadHoldingRegisters(REG_DC, 1), ReadHoldingRegisters(REG_AC, 1)>>)}

\* a call whose filter replaces the polling commands and keeps the pack commands
ReadDataKeepsPacks(t, filter) ==
    /\ pc[t] = "idle"
    /\ pc' = [pc EXCEPT ![t] = "lock"]
    /\ lock_waiters' = Append(lock_waiters, t)
    /\ filter_registers' = [filter_registers EXCEPT ![t] = filter]
    /\ polling_cmds' = [polling_cmds EXCEPT
                          ![t] = IF filter.given THEN filter.regs ELSE polling_commands]
    /\ pack_cmds' = [pack_cmds EXCEPT
                       ![t] = pack_polling_commands]
    /\ outcome' = [outcome EXCEPT ![t] = "running"]
    /\ UNCHANGED <<polling_lock, persistent_conn, has_notifier, exch, link, attempt,
                   parsed_data, pos, hist>>
    /\ UNCHANGED entity

\* lines 42-59: the call, up to waiting for the polling lock
ReadData(t, filter) ==
    /\ pc[t] = "idle"
    /\ pc' = [pc EXCEPT ![t] = "lock"]
    /\ lock_waiters' = Append(lock_waiters, t)
    /\ filter_registers' = [filter_registers EXCEPT ![t] = filter]
    /\ polling_cmds' = [polling_cmds EXCEPT
                          ![t] = IF filter.given THEN filter.regs ELSE polling_commands]
    /\ pack_cmds' = [pack_cmds EXCEPT
                       ![t] = IF filter.given THEN <<>> ELSE pack_polling_commands]
    /\ outcome' = [outcome EXCEPT ![t] = "running"]
    /\ UNCHANGED <<polling_lock, persistent_conn, has_notifier, exch, link, attempt,
                   parsed_data, pos, hist>>
    /\ UNCHANGED entity

\* a body entered without holding the polling lock
AcquireUnlocked(t) ==
    /\ t \in Readers
    /\ pc[t] = "lock"
    /\ lock_waiters # <<>> /\ Head(lock_waiters) = t
    /\ lock_waiters' = Tail(lock_waiters)
    /\ IF ~is_connected
       THEN /\ pc' = [pc EXCEPT ![t] = "connect"]
            /\ connects' = [connects EXCEPT ![t] = @ + 1]
            /\ polling_lock' = t
            /\ UNCHANGED <<pos, outcome, exch>>
       ELSE /\ AfterConnect(t)
            /\ UNCHANGED connects
    /\ UNCHANGED <<persistent_conn, has_notifier, link, locals, parsed_data,
                   timed_out, disconnects, stops, connect_failed>>
    /\ UNCHANGED entity

\* lines 59-66: the lock is granted; the body runs up to its first await
Acquire(t) ==
    /\ t \in Readers
    /\ pc[t] = "lock"
    /\ polling_lock = NoTask
    /\ lock_waiters # <<>> /\ Head(lock_waiters) = t
    /\ lock_waiters' = Tail(lock_waiters)
    /\ IF ~is_connected
       THEN /\ pc' = [pc EXCEPT ![t] = "connect"]
            /\ connects' = [connects EXCEPT ![t] = @ + 1]
            /\ polling_lock' = t
            /\ UNCHANGED <<pos, outcome, exch>>
       ELSE /\ AfterConnect(t)
            /\ UNCHANGED connects
    /\ UNCHANGED <<persistent_conn, has_notifier, link, locals, parsed_data,
                   timed_out, disconnects, stops, connect_failed>>
    /\ UNCHANGED entity

\* a connect step that backs off and retries after every failure but the last
ConnectRetrying(t) ==
    /\ pc[t] = "connect"
    /\ \/ /\ is_connected' = TRUE
          /\ AfterConnect(t)
          /\ UNCHANGED connect_failed
       \/ /\ UNCHANGED is_connected
          /\ connect_failed' = [connect_failed EXCEPT ![t] = TRUE]
          /\ IF attempt[t] = max_retries
             THEN Leave(t, "none", notify_future, has_notifier)
             ELSE /\ pc' = [pc EXCEPT ![t] = "backoff"]
                  /\ polling_lock' = t
                  /\ UNCHANGED <<pos, outcome, exch>>
    /\ UNCHANGED <<lock_waiters, persistent_conn, has_notifier, subscribed, inflight,
                   locals, parsed_data, timed_out, connects, disconnects, stops>>
    /\ UNCHANGED entity

\* lines 63-75: connect() returns or raises
Connect(t) ==
    /\ pc[t] = "connect"
    /\ \/ /\ is_connected' = TRUE
          /\ AfterConnect(t)
          /\ UNCHANGED connect_failed
       \/ /\ UNCHANGED is_connected
          /\ connect_failed' = [connect_failed EXCEPT ![t] = TRUE]
          /\ IF attempt[t] = max_retries \/ attempt[t] = 1
             THEN Leave(t, "none", notify_future, has_notifier)
             ELSE /\ pc' = [pc EXCEPT ![t] = "backoff"]
                  /\ polling_lock' = t
                  /\ UNCHANGED <<pos, outcome, exch>>
    /\ UNCHANGED <<lock_waiters, persistent_conn, has_notifier, subscribed, inflight,
                   locals, parsed_data, timed_out, connects, disconnects, stops>>
    /\ UNCHANGED entity

\* lines 75 and 111: asyncio.sleep returns
SleepDone(t) ==
    /\ pc[t] \in {"backoff", "settle"}
    /\ IF pc[t] = "backoff"
       THEN /\ attempt' = [attempt EXCEPT ![t] = @ + 1]
            /\ IF ~is_connected
               THEN /\ pc' = [pc EXCEPT ![t] = "connect"]
                    /\ connects' = [connects EXCEPT ![t] = @ + 1]
                    /\ polling_lock' = t
                    /\ UNCHANGED <<pos, outcome, exch>>
               ELSE /\ AfterConnect(t)
                    /\ UNCHANGED connects
       ELSE /\ Install(t, NextPos(pos[t], polling_cmds[t], pack_cmds[t]))
            /\ UNCHANGED <<attempt, connects>>
    /\ UNCHANGED <<lock_waiters, persistent_conn, has_notifier, link, filter_registers,
                   polling_cmds, pack_cmds, parsed_data, timed_out, disconnects, stops, connect_failed>>
    /\ UNCHANGED entity

\* lines 78-82: start_notify returns or raises (it cannot succeed without a link)
StartNotify(t) ==
    /\ pc[t] = "start_notify"
    /\ IF is_connected
       THEN /\ subscribed' = TRUE
            /\ has_notifier' = TRUE
            /\ GoTo(t, FirstPos(polling_cmds[t], pack_cmds[t]), notify_future, TRUE)
       ELSE /\ UNCHANGED <<subscribed, has_notifier>>
            /\ Leave(t, "none", notify_future, has_notifier)
    /\ UNCHANGED <<lock_waiters, persistent_conn, is_connected, inflight, locals,
                   parsed_data, hist>>
    /\ UNCHANGED entity

\* line 168: write_gatt_char returns (the device answers with a plan) or raises
\* BleakError, which line 185 catches
WriteGatt(t) ==
    /\ pc[t] = "write"
    /\ IF is_connected
       THEN /\ \E plan \in Plans(current_command) :
                 inflight' = IF subscribed /\ inflight = <<>>
                             THEN inflight \o Tagged(plan, current_command)
                             ELSE inflight
            /\ pc' = [pc EXCEPT ![t] = "await"]
            /\ UNCHANGED <<polling_lock, pos, outcome, exch, parsed_data>>
       ELSE /\ Process(t, <<>>, notify_future)
            /\ UNCHANGED inflight
    /\ UNCHANGED <<lock_waiters, persistent_conn, has_notifier, is_connected,
                   subscribed, locals, hist>>
    /\ UNCHANGED entity

\* line 171: wait_for returns the result or raises the exception of the future;
\* ParseError is not caught by _async_send_command: lines 96 and 139 catch it
\* for the polling and pack commands, nothing does for the pack-select command
AwaitDone(t) ==
    /\ pc[t] = "await"
    /\ notify_future.st \in {"result", "exception"}
    /\ IF notify_future.st = "result"
       THEN Process(t, notify_future.res, notify_future)
       ELSE IF notify_future.err = "ParseError"
       THEN /\ UNCHANGED parsed_data
            /\ IF pos[t].phase = "select"
               THEN Leave(t, "ParseError", notify_future, has_notifier)
               ELSE GoTo(t, NextPos(pos[t], polling_cmds[t], pack_cmds[t]),
                         notify_future, has_notifier)
       ELSE Process(t, <<>>, notify_future)
    /\ UNCHANGED <<lock_waiters, persistent_conn, has_notifier, link, locals, hist>>
    /\ UNCHANGED entity

\* a per-command timeout that escapes _async_send_command to line 142
CommandTimeoutFatal(t) ==
    /\ pc[t] = "await"
    /\ notify_future.st = "pending"
    /\ Leave(t, "none", Cancelled, has_notifier)
    /\ UNCHANGED <<lock_waiters, persistent_conn, has_notifier, link, locals,
                   parsed_data, hist>>
    /\ UNCHANGED entity

\* lines 171 and 177: RESPONSE_TIMEOUT expires, wait_for cancels the future
CommandTimeout(t) ==
    /\ pc[t] = "await"
    /\ notify_future.st = "pending"
    /\ Process(t, <<>>, Cancelled)
    /\ UNCHANGED <<lock_waiters, persistent_conn, has_notifier, link, locals, hist>>
    /\ UNCHANGED entity

\* lines 61 and 142-144: polling_timeout expires in whichever await the body is
OverallTimeout(t) ==
    /\ pc[t] \in {"connect", "backoff", "start_notify", "write", "await", "settle"}
    /\ timed_out' = [timed_out EXCEPT ![t] = TRUE]
    /\ Leave(t, "none",
             IF pc[t] = "await" /\ notify_future.st = "pending"
             THEN Cancelled ELSE notify_future,
             has_notifier)
    /\ UNCHANGED <<lock_waiters, persistent_conn, has_notifier, link, locals,
                   parsed_data, connects, disconnects, stops, connect_failed>>
    /\ UNCHANGED entity

\* lines 151-153: stop_notify returns, or raises out of the finally block
StopNotify(t) ==
    /\ pc[t] = "stop_notify"
    /\ stops' = [stops EXCEPT ![t] = @ + 1]
    /\ \/ /\ is_connected
          /\ subscribed' = FALSE
          /\ has_notifier' = FALSE
          /\ pc' = [pc EXCEPT ![t] = "disconnect"]
          /\ UNCHANGED <<polling_lock, pos, outcome, exch>>
       \/ /\ ~is_connected \/ ~subscribed
          /\ UNCHANGED <<subscribed, has_notifier>>
          /\ Return(t, "BleakError", notify_future)
    /\ UNCHANGED <<lock_waiters, persistent_conn, is_connected, inflight, locals,
                   parsed_data, timed_out, connects, disconnects, connect_failed>>
    /\ UNCHANGED entity

\* lines 154-156: disconnect returns, the lock is released and the call returns
Disconnect(t) ==
    /\ pc[t] = "disconnect"
    /\ disconnects' = [disconnects EXCEPT ![t] = @ + 1]
    /\ is_connected' = FALSE
    /\ subscribed' = FALSE
    /\ inflight' = <<>>
    /\ Return(t, outcome[t], notify_future)
    /\ UNCHANGED <<lock_waiters, persistent_conn, has_notifier, locals, parsed_data,
                   timed_out, connects, stops, connect_failed>>
    /\ UNCHANGED entity


(***************************************************************************)
(* BluettiButton.write_to_device.  The coordinator (coordinator.py) is not *)
(* among the sources: coordinator.polling_lock, coordinator.client and     *)
(* coordinator.persistent_conn are taken to be the reader's, as the        *)
(* specification states (sections 4.5 and 4.6).                            *)
(***************************************************************************)
\* coordinator.polling_lock is the reader's polling lock
coordinator_polling_lock == polling_lock

\* the command of line 155
ButtonCommand == build_setter_command("ac_output_on", 1)

\* lines 178-181: the finally block of write_to_device
LeaveW(t, out) ==
    IF persistent_conn
    THEN Return(t, out, notify_future)
    ELSE /\ pc' = [pc EXCEPT ![t] = "wdisconnect"]
         /\ outcome' = [outcome EXCEPT ![t] = out]
         /\ polling_lock' = t
         /\ UNCHANGED <<pos, exch>>

\* lines 153-157: the call, up to waiting for the polling lock
WriteToDevice(t) ==
    /\ t \in Writers
    /\ pc[t] = "idle"
    /\ pc' = [pc EXCEPT ![t] = "lock"]
    /\ lock_waiters' = Append(lock_waiters, t)
    /\ outcome' = [outcome EXCEPT ![t] = "running"]
    /\ UNCHANGED <<polling_lock, persistent_conn, has_notifier, exch, link, locals,
                   parsed_data, pos, hist>>
    /\ UNCHANGED entity

\* lines 157-165: the lock is granted; the body runs up to its first await
WAcquire(t) ==
    /\ t \in Writers
    /\ pc[t] = "lock"
    /\ coordinator_polling_lock = NoTask
    /\ lock_waiters # <<>> /\ Head(lock_waiters) = t
    /\ lock_waiters' = Tail(lock_waiters)
    /\ polling_lock' = t
    /\ pc' = [pc EXCEPT ![t] = IF ~is_connected THEN "wconnect" ELSE "wwrite"]
    /\ connects' = [connects EXCEPT ![t] = IF ~is_connected THEN @ + 1 ELSE @]
    /\ UNCHANGED <<persistent_conn, has_notifier, exch, link, locals, parsed_data,
                   pos, outcome, timed_out, disconnects, stops, connect_failed>>
    /\ UNCHANGED entity

\* lines 160-161 and 175-177: connect() returns or raises
WConnect(t) ==
    /\ pc[t] = "wconnect"
    /\ \/ /\ is_connected' = TRUE
          /\ pc' = [pc EXCEPT ![t] = "wwrite"]
          /\ UNCHANGED <<polling_lock, pos, outcome, exch, connect_failed>>
       \/ /\ UNCHANGED is_connected
          /\ connect_failed' = [connect_failed EXCEPT ![t] = TRUE]
          /\ LeaveW(t, "none")
    /\ UNCHANGED <<lock_waiters, persistent_conn, has_notifier, subscribed, inflight,
                   locals, parsed_data, timed_out, connects, disconnects, stops>>
    /\ UNCHANGED entity

\* lines 165-170: write_gatt_char returns (the device answers) or raises
WWrite(t) ==
    /\ pc[t] = "wwrite"
    /\ IF is_connected
       THEN /\ \E plan \in Plans(ButtonCommand) :
                 inflight' = IF subscribed /\ inflight = <<>>
                             THEN inflight \o Tagged(plan, ButtonCommand)
                             ELSE inflight
            /\ pc' = [pc EXCEPT ![t] = "wsettle"]
            /\ UNCHANGED <<polling_lock, pos, outcome, exch>>
       ELSE /\ LeaveW(t, "none")
            /\ UNCHANGED inflight
    /\ UNCHANGED <<lock_waiters, persistent_conn, has_notifier, is_connected,
                   subscribed, locals, parsed_data, hist>>
    /\ UNCHANGED entity

\* line 170: asyncio.sleep(5) returns
WSleepDone(t) ==
    /\ pc[t] = "wsettle"
    /\ LeaveW(t, "ok")
    /\ UNCHANGED <<lock_waiters, persistent_conn, has_notifier, link, locals,
                   parsed_data, hist>>
    /\ UNCHANGED entity

\* lines 159 and 172-174: the 15 s timeout expires in whichever await the body is
WTimeout(t) ==
    /\ pc[t] \in {"wconnect", "wwrite", "wsettle"}
    /\ timed_out' = [timed_out EXCEPT ![t] = TRUE]
    /\ LeaveW(t, "none")
    /\ UNCHANGED <<lock_waiters, persistent_conn, has_notifier, link, locals,
                   parsed_data, connects, disconnects, stops, connect_failed>>
    /\ UNCHANGED entity

\* line 181: disconnect returns, the lock is released and the call goes on
WDisconnect(t) ==
    /\ pc[t] = "wdisconnect"
    /\ disconnects' = [disconnects EXCEPT ![t] = @ + 1]
    /\ is_connected' = FALSE
    /\ subscribed' = FALSE
    /\ inflight' = <<>>
    /\ Return(t, outcome[t], notify_future)
    /\ UNCHANGED <<lock_waiters, persistent_conn, has_notifier, locals, parsed_data,
                   timed_out, connects, stops, connect_failed>>
    /\ UNCHANGED entity

(***************************************************************************)
(* The transport.                                                          *)
(***************************************************************************)
\* the transport delivers the next chunk to _notification_handler
Notify ==
    /\ inflight # <<>>
    /\ IF Len(Handler(notify_future, notify_response, current_command,
                      Head(inflight).data).resp) <= MaxResponse
       THEN RunHandler(Head(inflight).data)
       ELSE UNCHANGED <<notify_future, notify_response, current_command>>
    /\ inflight' = Tail(inflight)
    /\ UNCHANGED <<pc, polling_lock, lock_waiters, persistent_conn, has_notifier,
                   is_connected, subscribed, locals, parsed_data, pos, outcome,
                   hist, heard, at_seen>>
    /\ UNCHANGED entity

\* the radio link drops: the client is no longer connected
LinkLost ==
    /\ is_connected
    /\ is_connected' = FALSE
    /\ subscribed' = FALSE
    /\ inflight' = <<>>
    /\ UNCHANGED <<pc, polling_lock, lock_waiters, persistent_conn, has_notifier,
                   exch, locals, parsed_data, pos, outcome, hist>>
    /\ UNCHANGED entity

(***************************************************************************)
(* The entities: a binary sensor and a button listen to the coordinator.   *)
(* Python values are tagged with their type: isinstance(x, bool) is false  *)
(* of an int, and dict.get answers None for a missing key.                 *)
(***************************************************************************)
BoolVal(b) == [kind |-> "bool", b |-> b, n |-> 0]
IntVal(n) == [kind |-> "int", b |-> FALSE, n |-> n]
None == [kind |-> "none", b |-> FALSE, n |-> 0]

\* the values a field map holds: booleans, raw integers, None
Values == {BoolVal(b) : b \in BOOLEAN} \cup {IntVal(n) : n \in Byte} \cup {None}

Entities == {"binary_sensor", "button"}

\* self._response_key
response_key(e) == IF e = "binary_sensor" THEN "ac_output_on" ELSE "dc_output_on"

EntityKeys == {response_key(e) : e \in Entities}

\* coordinator.data: None, or the field map of the last poll
NoData == [is_dict |-> FALSE, map |-> EmptyMap]
Dict(m) == [is_dict |-> TRUE, map |-> m]
FieldMaps == UNION {[ks -> Values] : ks \in SUBSET EntityKeys}
DataInputs == {NoData} \cup {Dict(m) : m \in FieldMaps}

\* dict.get(key)
get(m, key) == IF key \in DOMAIN m THEN m[key] ELSE None

\* the button reads the flag and the client through the coordinator, the
\* binary sensor through coordinator.reader: the same reader and client
coordinator_persistent_conn == persistent_conn
coordinator_client_is_connected == is_connected

\* binary_sensor.py lines 98-129, button.py lines 115-146, with the isinstance
\* check of the value left out
handle_coordinator_update_untyped(persist, connected, d, key, ent) ==
    IF persist /\ ~connected THEN ent
    ELSE IF ~d.is_dict THEN [ent EXCEPT !.available = FALSE]
    ELSE IF get(d.map, key) = None THEN [ent EXCEPT !.available = FALSE]
    ELSE [available |-> TRUE, is_on |-> BoolVal(get(d.map, key) = BoolVal(TRUE))]

\* binary_sensor.py lines 98-129, button.py lines 115-146:
\* _handle_coordinator_update, from the entity's attributes to its attributes
handle_coordinator_update(persist, connected, d, key, ent) ==
    IF persist /\ ~connected THEN ent
    ELSE IF ~d.is_dict THEN [ent EXCEPT !.available = FALSE]
    ELSE LET response_data == get(d.map, key)
         IN  IF response_data = None THEN [ent EXCEPT !.available = FALSE]
             ELSE IF response_data.kind # "bool"
                  THEN [ent EXCEPT !.available = FALSE]
                  ELSE [available |-> TRUE,
                        is_on |-> BoolVal(d.map[key] = BoolVal(TRUE))]

\* the coordinator calls the entity's listener
HandleUpdate(e) ==
    /\ LET ent == handle_coordinator_update(
                      IF e = "button" THEN coordinator_persistent_conn
                                      ELSE persistent_conn,
                      IF e = "button" THEN coordinator_client_is_connected
                                      ELSE is_connected,
                      coordinator_data, response_key(e),
                      [available |-> attr_available[e], is_on |-> attr_is_on[e]])
       IN  /\ attr_available' = [attr_available EXCEPT ![e] = ent.available]
           /\ attr_is_on' = [attr_is_on EXCEPT ![e] = ent.is_on]
    /\ handled' = [handled EXCEPT ![e] = TRUE]
    /\ UNCHANGED <<pc, polling_lock, lock_waiters, persistent_conn, has_notifier,
                   exch, link, locals, parsed_data, pos, outcome, hist, coordinator_data>>

\* a poll has ended: the coordinator stores its result, None or a field map
Refresh(d) ==
    /\ coordinator_data' = d
    /\ handled' = [e \in Entities |-> FALSE]
    /\ UNCHANGED <<pc, polling_lock, lock_waiters, persistent_conn, has_notifier,
                   exch, link, locals, parsed_data, pos, outcome, hist,
                   attr_available, attr_is_on>>

\* between two updates the client connects or loses the link
LinkChange ==
    /\ is_connected' = ~is_connected
    /\ handled' = [e \in Entities |-> FALSE]
    /\ UNCHANGED <<pc, polling_lock, lock_waiters, persistent_conn, has_notifier,
                   exch, subscribed, inflight, locals, parsed_data, pos, outcome,
                   hist, coordinator_data, attr_available, attr_is_on>>

(***************************************************************************)
(* The system.                                                             *)
(***************************************************************************)
\* A call that has returned hands its result to its caller in the same stretch
\* of the event loop: nothing else runs until the caller has taken it.  The
\* locals and the history of the call end with it.
Consume(t) ==
    /\ pc[t] = "returned"
    /\ pc' = [pc EXCEPT ![t] = "idle"]
    /\ filter_registers' = [filter_registers EXCEPT ![t] = NoFilter]
    /\ polling_cmds' = [polling_cmds EXCEPT ![t] = <<>>]
    /\ pack_cmds' = [pack_cmds EXCEPT ![t] = <<>>]
    /\ parsed_data' = [parsed_data EXCEPT ![t] = EmptyMap]
    /\ attempt' = [attempt EXCEPT ![t] = 1]
    /\ pos' = [pos EXCEPT ![t] = NoPos]
    /\ outcome' = [outcome EXCEPT ![t] = "nocall"]
    /\ timed_out' = [timed_out EXCEPT ![t] = FALSE]
    /\ connects' = [connects EXCEPT ![t] = 0]
    /\ disconnects' = [disconnects EXCEPT ![t] = 0]
    /\ connect_failed' = [connect_failed EXCEPT ![t] = FALSE]
    /\ stops' = [stops EXCEPT ![t] = 0]
    /\ UNCHANGED <<polling_lock, lock_waiters, persistent_conn, has_notifier, exch,
                   link>>
    /\ UNCHANGED entity

Quiet == \A t \in Tasks : pc[t] # "returned"

\* DeviceReader.__init__ (lines 18-40), for either value of persistent_conn
Init ==
    /\ pc = [t \in Tasks |-> "idle"]
    /\ polling_lock = NoTask
    /\ lock_waiters = <<>>
    /\ persistent_conn \in BOOLEAN
    /\ is_connected = FALSE
    /\ subscribed = FALSE
    /\ has_notifier = FALSE
    /\ notify_future = NoFuture
    /\ current_command = NoCommand
    /\ notify_response = <<>>
    /\ inflight = <<>>
    /\ filter_registers = [t \in Tasks |-> NoFilter]
    /\ polling_cmds = [t \in Tasks |-> <<>>]
    /\ pack_cmds = [t \in Tasks |-> <<>>]
    /\ parsed_data = [t \in Tasks |-> EmptyMap]
    /\ attempt = [t \in Tasks |-> 1]
    /\ pos = [t \in Tasks |-> NoPos]
    /\ outcome = [t \in Tasks |-> "nocall"]
    /\ timed_out = [t \in Tasks |-> FALSE]
    /\ connects = [t \in Tasks |-> 0]
    /\ disconnects = [t \in Tasks |-> 0]
    /\ connect_failed = [t \in Tasks |-> FALSE]
    /\ stops = [t \in Tasks |-> 0]
    /\ heard = <<>>
    /\ at_seen = FALSE
    /\ coordinator_data = NoData
    /\ attr_available = [e \in Entities |-> FALSE]
    /\ attr_is_on = [e \in Entities |-> None]
    /\ handled = [e \in Entities |-> FALSE]

Next ==
    \/ Quiet /\ \E t \in Readers : \E f \in FilterInputs(t) : ReadData(t, f)
    \/ Quiet /\ \E t \in Tasks : Acquire(t)
    \/ Quiet /\ \E t \in Tasks : Connect(t)
    \/ Quiet /\ \E t \in Tasks : SleepDone(t)
    \/ Quiet /\ \E t \in Tasks : StartNotify(t)
    \/ Quiet /\ \E t \in Tasks : WriteGatt(t)
    \/ Quiet /\ \E t \in Tasks : AwaitDone(t)
    \/ Quiet /\ \E t \in Tasks : CommandTimeout(t)
    \/ Quiet /\ \E t \in Tasks : OverallTimeout(t)
    \/ Quiet /\ \E t \in Tasks : StopNotify(t)
    \/ Quiet /\ \E t \in Tasks : Disconnect(t)
    \/ Quiet /\ \E t \in Tasks : WriteToDevice(t)
    \/ Quiet /\ \E t \in Tasks : WAcquire(t)
    \/ Quiet /\ \E t \in Tasks : WConnect(t)
    \/ Quiet /\ \E t \in Tasks : WWrite(t)
    \/ Quiet /\ \E t \in Tasks : WSleepDone(t)
    \/ Quiet /\ \E t \in Tasks : WTimeout(t)
    \/ Quiet /\ \E t \in Tasks : WDisconnect(t)
    \/ Quiet /\ Notify
    \/ Quiet /\ LinkLost
    \/ \E t \in Tasks : Consume(t)

Spec == Init /\ [][Next]_vars

\* What the event loop and the transport owe a task that is in a call: the
\* lock is granted to the first waiter once it is free, every transport call
\* (connect, start_notify, write_gatt_char, stop_notify, disconnect) returns
\* or raises, every sleep ends, wait_for returns or times out, and the caller
\* takes the result of a call that has returned.
Progress(t) ==
    \/ Quiet /\ (Acquire(t) \/ WAcquire(t))
    \/ Quiet /\ (Connect(t) \/ WConnect(t))
    \/ Quiet /\ (StartNotify(t) \/ WriteGatt(t) \/ WWrite(t))
    \/ Quiet /\ (AwaitDone(t) \/ CommandTimeout(t))
    \/ Quiet /\ (SleepDone(t) \/ WSleepDone(t))
    \/ Quiet /\ (StopNotify(t) \/ Disconnect(t) \/ WDisconnect(t))
    \/ Consume(t)

\* The program under that scheduling, with one poller and one writer: the
\* coordinator's periodic poll r1 and the button's write w1 (the filtered
\* reads of r2 run the first loop of r1's poll only).  The lock is granted
\* in the order of arrival, so the task that holds the lock, or waits first
\* for a free one, is not overtaken by the other: one fairness condition on
\* the progress of any task is enough for each.
LiveTasks == {"r1", "w1"}
NextLive == Next /\ pc'["r2"] = "idle"
SpecLive ==
    Init /\ [][NextLive]_vars /\ WF_vars(\E t \in LiveTasks : Progress(t))


(***************************************************************************)
(* The handler specification: one exchange of a one-command poll, fed      *)
(* every sequence of chunks.  The reader r2 has sent command c and awaits  *)
(* the response (a state of Spec: connected, subscribed, lock held).       *)
(***************************************************************************)
\* the commands of the exchange: those whose response the feed can complete
HCommands ==
    {c \in {ReadHoldingRegisters(REG_DC, 1), ReadHoldingRegisters(REG_PACK_NUM, 2)} :
        response_size(c) <= MaxHeard}

\* every chunk of up to MaxChunk bytes below FeedByteMax, and the two AT echoes
Chunks ==
    UNION {[1..n -> 0..FeedByteMax] : n \in 1..MaxChunk} \cup {AT_NAME, AT_ADV}

\* the transport calls _notification_handler with an arbitrary chunk
Feed(data) ==
    /\ subscribed
    /\ Len(heard) + Len(data) <= MaxHeard
    /\ RunHandler(data)
    /\ heard' = heard \o data
    /\ at_seen' = (at_seen \/ data = AT_NAME \/ data = AT_ADV)
    /\ UNCHANGED <<pc, polling_lock, lock_waiters, persistent_conn, has_notifier,
                   link, locals, parsed_data, pos, outcome, hist>>
    /\ UNCHANGED entity

InitH ==
    /\ pc = [t \in Tasks |-> IF t = "r2" THEN "await" ELSE "idle"]
    /\ polling_lock = "r2"
    /\ lock_waiters = <<>>
    /\ persistent_conn = TRUE
    /\ is_connected = TRUE
    /\ subscribed = TRUE
    /\ has_notifier = TRUE
    /\ notify_future = Pending
    /\ current_command \in HCommands
    /\ notify_response = <<>>
    /\ inflight = <<>>
    /\ filter_registers =
          [t \in Tasks |-> IF t = "r2" THEN Filter(<<current_command>>) ELSE NoFilter]
    /\ polling_cmds = [t \in Tasks |-> IF t = "r2" THEN <<current_command>> ELSE <<>>]
    /\ pack_cmds = [t \in Tasks |-> <<>>]
    /\ parsed_data = [t \in Tasks |-> EmptyMap]
    /\ attempt = [t \in Tasks |-> 1]
    /\ pos = [t \in Tasks |-> IF t = "r2" THEN Pos("main", 1, 0) ELSE NoPos]
    /\ outcome = [t \in Tasks |-> IF t = "r2" THEN "running" ELSE "nocall"]
    /\ timed_out = [t \in Tasks |-> FALSE]
    /\ connects = [t \in Tasks |-> 0]
    /\ disconnects = [t \in Tasks |-> 0]
    /\ connect_failed = [t \in Tasks |-> FALSE]
    /\ stops = [t \in Tasks |-> 0]
    /\ heard = <<>>
    /\ at_seen = FALSE
    /\ coordinator_data = NoData
    /\ attr_available = [e \in Entities |-> FALSE]
    /\ attr_is_on = [e \in Entities |-> None]
    /\ handled = [e \in Entities |-> FALSE]

NextH ==
    \/ Quiet /\ \E data \in Chunks : Feed(data)
    \/ Quiet /\ AwaitDone("r2")
    \/ Quiet /\ CommandTimeout("r2")
    \/ Consume("r2")

SpecH == InitH /\ [][NextH]_vars

(***************************************************************************)
(* The entity specification: the polls are abstracted to what the          *)
(* listeners read, the coordinator's data and the state of the client.     *)
(***************************************************************************)
NextE ==
    \/ \E d \in DataInputs : Refresh(d)
    \/ LinkChange
    \/ \E e \in Entities : HandleUpdate(e)

SpecE == Init /\ [][NextE]_vars


(***************************************************************************)
(* Properties.                                                             *)
(***************************************************************************)
\* task t is inside its exchange: it holds the lock and uses the transport
InBody(t) == pc[t] \notin {"idle", "lock", "returned"}

\* the step in which reader t resumes from wait_for (line 171) without the
\* overall timeout having fired
Resumes(t) == pc[t] = "await" /\ pc'[t] # "await" /\ ~timed_out'[t]

\* after that step the poll goes on: the next command, the settle delay, or
\* the end of the body with the field map as its result
GoesOn(t) ==
    \/ pc'[t] \in {"write", "settle"}
    \/ pc'[t] \in {"stop_notify", "disconnect", "returned"} /\ outcome'[t] = "map"

\* what the response in the result slot decodes to
Decoded == parse(current_command.starting_address,
                 parse_response(current_command, notify_future.res))

\* C1: no two command exchanges overlap: at most one task (read_data or
\* write_to_device) is inside its exchange, connect through teardown, and
\* that task holds the polling lock.
C1_MutualExclusion ==
    /\ \A t \in Tasks : InBody(t) => polling_lock = t
    /\ \A t, u \in Tasks : InBody(t) /\ InBody(u) => t = u

C1_Witness ==
    /\ pc["r1"] = "await"
    /\ pc["r2"] = "lock"
    /\ pc["w1"] = "lock"

\* C2: in non-persistent mode every call that took the lock has, when it
\* returns, called disconnect exactly once, and the session is neither
\* subscribed (has_notifier) nor connected.
C2_TeardownOnce ==
    \A t \in Tasks :
        pc[t] = "returned" /\ ~persistent_conn =>
            disconnects[t] = 1 /\ ~has_notifier /\ ~is_connected

\* C3: a read_data call in which the overall timeout fired returns None.
C3_TimeoutReturnsNone ==
    \A t \in Readers :
        pc[t] = "returned" /\ timed_out[t] => outcome[t] = "none"

\* C4: a response of full length that fails the checksum does not abort the
\* poll: the command adds no field and the poll goes on; a polling command
\* that succeeds has its fields in the map, and no field leaves the map.
C4_ChecksumSkipped ==
    [][\A t \in Readers :
        /\ Resumes(t) /\ notify_future.err = "ParseError" =>
              parsed_data'[t] = parsed_data[t] /\ GoesOn(t)
        /\ Resumes(t) /\ notify_future.st = "result" /\ pos[t].phase = "main" =>
              \A k \in DOMAIN Decoded :
                  k \in DOMAIN parsed_data'[t] /\ parsed_data'[t][k] = Decoded[k]
        /\ InBody(t) => DOMAIN parsed_data[t] \subseteq DOMAIN parsed_data'[t]
      ]_vars

\* C5: a per-command timeout, an AT echo or a device exception response ends
\* only that exchange: the result slot is resolved, the command adds no field
\* to the map, and the poll goes on to the next command (or ends with the map).
C5_CommandErrorSkipped ==
    [][\A t \in Readers :
        Resumes(t) /\ (notify_future.st = "pending"
                       \/ notify_future.err \in {"BadConnectionError", "ModbusError"}) =>
            /\ parsed_data'[t] = parsed_data[t]
            /\ GoesOn(t)
            /\ pc'[t] # "write" => done(notify_future')
      ]_vars

C5_Witness ==
    /\ pc["r1"] = "returned"
    /\ outcome["r1"] = "map"
    /\ notify_future.st = "cancelled"
    /\ DOMAIN parsed_data["r1"] = {"ac_output_on"}


\* the exchange of the handler specification is still awaited: what was fed
\* so far, heard, is the sequence of fragments delivered in order
Awaited == pc["r2"] = "await"

\* the fragments fed so far are short of a whole response: still unresolved;
\* they make up a whole checksum-valid response: resolved with exactly them
FragmentsResolve ==
    /\ Len(heard) < response_size(current_command) => notify_future.st = "pending"
    /\ Len(heard) = response_size(current_command)
         /\ is_valid_response(current_command, heard) => notify_future = Result(heard)

\* C6 as stated: for every command and every split of a checksum-valid
\* response into fragments, the exchange stays unresolved until the last
\* fragment arrives and is then resolved with their concatenation.
C6_AnySplitResolves == Awaited => FragmentsResolve

\* C6, amended: the same for every split none of whose fragments equals an AT
\* echo, of a response whose function byte is not the command's exception code.
C6_SplitResolves ==
    Awaited /\ ~at_seen
      /\ (Len(heard) >= 3 => heard[2] # current_command.func + EXC_BIT)
    => FragmentsResolve

\* a whole response that arrived in at least two fragments (no chunk is as
\* long as the response) and resolved the exchange
C6_Witness ==
    /\ Awaited
    /\ MaxChunk < response_size(current_command)
    /\ ~at_seen
    /\ Len(heard) = response_size(current_command)
    /\ notify_future = Result(heard)

\* C7: a resolved exchange (result, error or cancelled by its timeout) is
\* never resolved again: a further notification changes neither the result
\* slot nor the accumulation buffer.
C7_ResolvedOnce ==
    [][done(notify_future) =>
         notify_future' = notify_future /\ notify_response' = notify_response]_vars

\* a chunk was fed after the exchange had been resolved with a response
C7_Witness ==
    /\ notify_future.st = "result"
    /\ ~at_seen
    /\ Len(heard) > Len(notify_response)
    /\ notify_response = notify_future.res

\* the keys the pack commands decode to
PackKeys == {"pack_num", "pack_voltage", "cell_voltage"}

\* C8: a pack command's fields are stored under key+pack and never under the
\* bare key, and what is stored under suffix p was decoded from a response
\* whose pack_num is p.
C8_PackKeys ==
    /\ [](\A t \in Readers :
            /\ DOMAIN parsed_data[t] \cap PackKeys = {}
            /\ \A p \in 1..pack_num_max :
                 /\ \A k \in PackKeys :
                        k \o ToString(p) \in DOMAIN parsed_data[t] =>
                            "pack_num" \o ToString(p) \in DOMAIN parsed_data[t]
                 /\ "pack_num" \o ToString(p) \in DOMAIN parsed_data[t] =>
                        parsed_data[t]["pack_num" \o ToString(p)] = p)
    /\ [][\A t \in Readers :
            InBody(t) /\ pos[t].phase = "pack" /\ parsed_data'[t] # parsed_data[t] =>
                /\ Resumes(t)
                /\ notify_future.st = "result"
                /\ "pack_num" \in DOMAIN Decoded
                /\ Decoded["pack_num"] = pos[t].pack
                /\ DOMAIN parsed_data'[t] =
                      DOMAIN parsed_data[t]
                        \cup {k \o ToString(pos[t].pack) : k \in DOMAIN Decoded}
         ]_vars

\* both packs answered with their own number; the poll returned their fields
C8_Witness ==
    /\ pc["r1"] = "returned"
    /\ outcome["r1"] = "map"
    /\ {"pack_voltage1", "pack_voltage2"} \subseteq DOMAIN parsed_data["r1"]

\* C9: a pack command's decoded fields are discarded only when a decoded
\* pack_num is present and differs from the requested pack; otherwise, also
\* when no pack_num was decoded, each field is merged under key+pack.
C9_DiscardOnlyOnMismatch ==
    [][\A t \in Readers :
        Resumes(t) /\ notify_future.st = "result" /\ pos[t].phase = "pack" =>
            IF "pack_num" \in DOMAIN Decoded /\ Decoded["pack_num"] # pos[t].pack
            THEN parsed_data'[t] = parsed_data[t]
            ELSE \A k \in DOMAIN Decoded :
                    /\ k \o ToString(pos[t].pack) \in DOMAIN parsed_data'[t]
                    /\ parsed_data'[t][k \o ToString(pos[t].pack)] = Decoded[k]
      ]_vars

\* C10: in persistent mode no call ever calls disconnect or stop_notify, on
\* any outcome, and the step in which a call returns takes down neither the
\* connection nor the subscription nor has_notifier.
C10_PersistentKeepsSession ==
    /\ [](persistent_conn =>
            \A t \in Tasks :
                /\ disconnects[t] = 0 /\ stops[t] = 0
                /\ pc[t] \notin {"stop_notify", "disconnect", "wdisconnect"})
    /\ [][\A t \in Tasks :
            persistent_conn /\ pc[t] # "returned" /\ pc'[t] = "returned" =>
                /\ is_connected => is_connected'
                /\ subscribed => subscribed'
                /\ has_notifier => has_notifier'
         ]_vars

\* a poll that timed out in persistent mode returned with the session up
C10_Witness ==
    /\ persistent_conn
    /\ pc["r1"] = "returned"
    /\ timed_out["r1"]
    /\ is_connected
    /\ has_notifier

\* C11: once connect() has failed in a read_data call, the call subscribes to
\* nothing and writes no command, goes through the teardown (disconnect is
\* called once in non-persistent mode) and returns None, never a field map.
C11_ConnectFailureFatal ==
    \A t \in Readers :
        connect_failed[t] =>
            /\ pos[t] = NoPos
            /\ pc[t] \in {"stop_notify", "disconnect", "returned"}
            /\ pc[t] = "returned" =>
                  /\ outcome[t] = "none"
                  /\ ~persistent_conn => disconnects[t] = 1

\* C12: a failure of the first connect attempt is surfaced at once: the call
\* never backs off and never makes a further attempt, so that connect() is
\* called at most once per read_data call.
C12_ConnectAtMostOnce ==
    \A t \in Readers :
        /\ connects[t] <= 1
        /\ attempt[t] = 1
        /\ pc[t] # "backoff"
        /\ connect_failed[t] => pc[t] \in {"stop_notify", "disconnect", "returned"}

\* a call whose one connect attempt failed has returned
C12_Witness ==
    /\ pc["r1"] = "returned"
    /\ connect_failed["r1"]
    /\ connects["r1"] = 1
    /\ max_retries > 1

\* reader t was called with a filter list
Filtered(t) == filter_registers[t].given

\* C13: a read_data call given a filter list sends exactly the filter's
\* commands, in order, whatever the device's polling and pack commands and
\* pack count: each command it installs is the filter's next one, it never
\* selects a pack or sends a pack command, and when it returns a map the
\* last command it sent was the filter's last.
C13_FilterReplacesPolling ==
    /\ [](\A t \in Readers :
            Filtered(t) =>
                /\ pos[t].phase \in {"none", "main"}
                /\ pc[t] # "settle"
                /\ pc[t] \in {"write", "await"} =>
                      current_command = filter_registers[t].regs[pos[t].idx]
                /\ pc[t] = "returned" /\ outcome[t] = "map" =>
                      pos[t].idx = Len(filter_registers[t].regs))
    /\ [][\A t \in Readers :
            Filtered(t) /\ pc'[t] # "idle" /\ pos'[t] # pos[t] =>
                /\ pos'[t] = Pos("main", pos[t].idx + 1, 0)
                /\ pc'[t] = "write"
                /\ current_command' = filter_registers[t].regs[pos'[t].idx]
         ]_vars

\* a poll filtered to two registers, in the reverse of the device's polling
\* order, returned both fields
C13_Witness ==
    /\ pc["r2"] = "returned"
    /\ outcome["r2"] = "map"
    /\ Len(filter_registers["r2"].regs) = 2
    /\ filter_registers["r2"].regs[1] = polling_commands[2]
    /\ DOMAIN parsed_data["r2"] = {"ac_output_on", "dc_output_on"}
    /\ Len(pack_polling_commands) > 0

\* the step in which write_gatt_char (line 168) raises BleakError to reader t:
\* the client is not connected and the overall timeout has not fired
WriteFails(t) ==
    /\ pc[t] = "write"
    /\ ~is_connected
    /\ ~timed_out'[t]
    /\ pc'[t] # "write" \/ pos'[t] # pos[t]

\* C14: a transport error raised by the write of a command aborts the poll:
\* no further command is installed, the call goes to its teardown and
\* returns None, never a field map.
C14_WriteErrorAborts ==
    [][\A t \in Readers :
        WriteFails(t) =>
            /\ pc'[t] \in {"stop_notify", "disconnect", "returned"}
            /\ outcome'[t] = "none"
      ]_vars

\* C15: has_notifier implies a live subscription on the current connection,
\* so that whenever read_data is about to write a command on a connected
\* client the notification handler is subscribed.
C15_NotifierLive ==
    /\ has_notifier /\ is_connected => subscribed
    /\ \A t \in Readers : pc[t] = "write" /\ is_connected => subscribed

\* the step in which reader t enters _async_send_command (lines 162-164)
Enters(t) == pc'[t] = "write" /\ pos'[t] # pos[t]

\* C16: at every entry to _async_send_command the result slot of the previous
\* exchange is absent or resolved.  (A step that leaves wait_for with the slot
\* still pending is the command timeout, which cancels it before the entry.)
C16_NoOutstandingExchange ==
    [][\A t \in Readers :
        Enters(t) =>
            \/ notify_future.st = "none"
            \/ done(notify_future)
            \/ pc[t] = "await"
      ]_vars

\* C17: once write_to_device has written its command, it leaves the settle
\* delay (towards its teardown and the release of the polling lock, which
\* admits the next poll) only when the delay has elapsed, never because its
\* own timeout fired.
C17_SettleDelayElapses ==
    [][\A w \in Writers :
        pc[w] = "wsettle" /\ pc'[w] # "wsettle" =>
            /\ ~timed_out'[w]
            /\ outcome'[w] = "ok"
      ]_vars

\* a step of the event loop in which no task resumes and a chunk leaves the
\* transport: a run of the notification handler, or the link dropping
ChunkLeaves ==
    /\ pc' = pc /\ pos' = pos
    /\ inflight # <<>> /\ inflight' = Tail(inflight)

\* C18: a run of the notification handler, whatever the chunk and whichever
\* awaits the tasks are suspended in, changes at most the result slot and
\* the accumulation buffer: current_command, has_notifier, the connection
\* state and the field maps (and every other variable) are left as they were.
C18_HandlerFrame ==
    [][ChunkLeaves =>
          \/ /\ is_connected /\ ~is_connected'
             /\ UNCHANGED <<notify_future, notify_response>>
          \/ UNCHANGED <<current_command, has_notifier, is_connected, subscribed,
                         parsed_data, polling_lock, lock_waiters, persistent_conn,
                         locals, outcome, hist>>
      ]_vars

\* the handler has accumulated the device's echo into a pending exchange
\* while write_to_device was suspended in its settle delay
C18_Witness ==
    /\ pc["w1"] = "wsettle"
    /\ notify_future.st = "pending"
    /\ notify_response # <<>>
    /\ inflight = <<>>

\* C19: the handler accumulates a chunk into the exchange, or resolves the
\* exchange with it, only when the device sent the chunk in reply to the
\* exchange's command and that command has been written (the reader is in
\* wait_for): never a late chunk of an earlier command, nor one that arrives
\* between the installation of the exchange and the write.
C19_OnlyOwnReply ==
    [][ChunkLeaves
         /\ (notify_future' # notify_future \/ notify_response' # notify_response)
       => /\ Head(inflight).re = current_command
          /\ \E t \in Readers : pc[t] = "await"
      ]_vars

\* C20: every call that has acquired the polling lock eventually releases
\* it, whatever its outcome, and every call waiting for the lock is
\* eventually admitted: again and again a task neither waits for the lock
\* nor holds it (a wait ends only by admission, a hold only by release).
C20_LockReleased ==
    \A t \in LiveTasks : []<>(pc[t] # "lock" /\ polling_lock # t)

\* the lock was released by a poll whose teardown raised, with a write
\* waiting for it
C20_Witness ==
    /\ pc["r1"] = "returned"
    /\ outcome["r1"] = "BleakError"
    /\ polling_lock = NoTask
    /\ pc["w1"] = "lock"

\* the coordinator's data is a field map holding a boolean under the key of e
HoldsBool(e) ==
    /\ coordinator_data.is_dict
    /\ response_key(e) \in DOMAIN coordinator_data.map
    /\ coordinator_data.map[response_key(e)].kind = "bool"

\* C21: when a binary sensor or a button handles a coordinator update in
\* persistent mode with the client not connected, its availability and its
\* on/off state are unchanged; otherwise it is available afterwards exactly
\* when the coordinator's data is a field map holding a boolean under its
\* key, its on/off state is then that boolean, and it is unavailable when
\* there is no map, the key is missing or the value is not a boolean.
C21_EntityFollowsData ==
    [][\A e \in Entities :
          HandleUpdate(e) =>
             IF persistent_conn /\ ~is_connected
             THEN /\ attr_available'[e] = attr_available[e]
                  /\ attr_is_on'[e] = attr_is_on[e]
             ELSE /\ attr_available'[e] <=> HoldsBool(e)
                  /\ HoldsBool(e) =>
                        attr_is_on'[e] = coordinator_data.map[response_key(e)]]_vars

\* both entities have handled an update with the client connected: the
\* binary sensor found True under its key and is on, the button found an
\* integer under its key and is unavailable
C21_Witness ==
    /\ is_connected
    /\ \A e \in Entities : handled[e]
    /\ coordinator_data.is_dict
    /\ get(coordinator_data.map, "ac_output_on") = BoolVal(TRUE)
    /\ get(coordinator_data.map, "dc_output_on").kind = "int"
    /\ attr_available["binary_sensor"]
    /\ attr_is_on["binary_sensor"] = BoolVal(TRUE)
    /\ ~attr_available["button"]

=============================================================================
